---- MODULE Spec2Model ----
(***************************************************************************)
(* Model of the ZePU Hive client (src/zepu/distributed.py,                 *)
(* class DistributedCluster) together with the remote nodes it talks to.   *)
(*                                                                         *)
(* The client is a sequential program: one operation at a time, and inside *)
(* an operation a strict sequence of _send_cmd / _recv_resp calls.  The    *)
(* remote nodes are not part of the sources; they are an environment that  *)
(* answers a request with any response the wire format allows (any status, *)
(* any payload length) or closes the connection.                           *)
(*                                                                         *)
(* The byte stream of a connection is modelled in units: one unit for the  *)
(* 12-byte response header and one unit per 16 payload bytes (the size of  *)
(* one GET_STATS record, two 8-byte fields).                               *)
(***************************************************************************)
EXTENDS Integers, Sequences, FiniteSets, TLC

\* ---------------------------------------------------------------- bounds
MaxNodes == 2        \* number of "IP:PORT" strings handed to the constructor
MaxTotal == 3        \* largest total_vcpus given to one spawn call
MaxFaults == 1       \* non-200 responses and closed sockets in one run

\* ------------------------------------------------------- program constants
CMD_SPAWN_VCPU == 1
CMD_LOAD_PROG == 2
CMD_RUN_CLUSTER == 3
CMD_READ_MEM == 4
CMD_GET_STATS == 6
STATUS_OK == 200
STATS_UNITS == 1     \* struct.unpack('QQ', data): one 16-byte record

\* spawn is not called once the map would grow beyond this
MaxMap == MaxTotal

\* ------------------------------------------------------------ input sets
Addrs == 1..MaxNodes
Statuses == {STATUS_OK, 500}
\* a node sends no payload or a payload of the size of one stats record
MaxPayload == STATS_UNITS
\* no new call once a socket has this many requests without a complete response
MaxOutstanding == MaxFaults + 1
\* a node does not respond while its earlier output is still unread beyond this
MaxRx == MaxPayload + 2
VcpuIds == {0 - MaxMap - 1, 0 - 1} \cup (0..MaxMap)
None == <<>>

VARIABLES
  nodes,        \* self.nodes: sequence of [sock, addr, vcpu_count]
  vcpu_map,     \* self.vcpu_map: sequence of <<node_index, local_id>>
  pc,           \* position of the client: idle, send, recv_hdr, recv_pay, done
  op,           \* the client operation in progress
  arg,          \* its argument: total_vcpus (spawn) or vcpu_id (load/read)
  cur,          \* node index (0-based) of the current loop iteration / route
  local,        \* local_id routed to (load_program, read_memory)
  need,         \* payload units _recv_resp still has to read
  acc,          \* get_telemetry accumulators total_instr, total_gpu
  result,       \* how the operation ended: return value or exception
  evLog,        \* sends / receives of the current operation, in order
  mapAtStart,   \* vcpu_map when the current operation was called
  nodesAtStart, \* nodes when the current operation was called
  syncAtStart,  \* every stream was empty and answered when it was called
  rx,           \* per socket: units sent by the node, not yet read
  unanswered,   \* per socket: requests sent that the node has not answered
  closed,       \* per socket: the node has closed its end
  faults,       \* number of faults injected so far
  vcpus,        \* the cluster's array of VCPU_CONTEXT, index 0 first
  cluster,      \* the shared fields of VCPU_CLUSTER
  workers,      \* the thread pool: one record per worker thread
  caller,       \* the thread that calls Cluster.load_program / Cluster.run
  hist,         \* what happened in the current run call, for the properties
  codec,        \* one instruction tuple on its way through pack and unpack
  wire,         \* the requests built by _send_cmd, as byte sequences
  accel,        \* the accelerator server and its one client connection
  app           \* the client application's retry loop

sideVars == <<wire, accel, app>>
engineVars == <<vcpus, cluster, workers, caller, hist, codec, sideVars>>

vars == <<nodes, vcpu_map, pc, op, arg, cur, local, need, acc, result, evLog,
          mapAtStart, nodesAtStart, syncAtStart, rx, unanswered, closed, faults,
          vcpus, cluster, workers, caller, hist, codec, wire, accel, app>>

clientVars == <<pc, op, arg, cur, local, need, acc, result, evLog,
                mapAtStart, nodesAtStart, syncAtStart>>
hiveVars == <<nodes, vcpu_map>>
netVars == <<rx, unanswered, closed, faults>>

\* ------------------------------------------------------------- helpers
Min(a, b) == IF a < b THEN a ELSE b

RECURSIVE SeqOfSet(_)
\* the increasing sequence of the elements of a set of integers
SeqOfSet(S) ==
  IF S = {} THEN <<>>
  ELSE LET m == CHOOSE x \in S : \A y \in S : x <= y
       IN  <<m>> \o SeqOfSet(S \ {m})

IsPrefix(s, t) == Len(s) <= Len(t) /\ SubSeq(t, 1, Len(s)) = s

NoResult == [kind |-> "none", status |-> 0, value |-> None]
ZeroAcc == [instr |-> 0, gpu |-> 0]

Hdr(status, len) ==
  [k |-> "hdr", status |-> status, len |-> len, v |-> <<0, 0>>, fin |-> (len = 0)]
Pay(v, last) ==
  [k |-> "pay", status |-> 0, len |-> 0, v |-> v, fin |-> last]

\* a complete response on the wire: header followed by the payload
Response(status, payload) ==
  <<Hdr(status, Len(payload))>> \o
  [j \in 1..Len(payload) |-> Pay(payload[j], j = Len(payload))]

\* the payloads the node behind socket c may send: any length up to
\* MaxPayload; unit j carries a pair <<instructions, accelerator_dispatches>>
\* that identifies the node and the unit
StatOf(c, j) == <<c + (j - 1) * MaxNodes, 10 * c + j>>
Payloads(c) ==
  {[j \in 1..n |-> StatOf(c, j)] : n \in 0..MaxPayload}

\* the two numbers a unit reads as when taken as 16 payload bytes
TokVal(t) == IF t.k = "pay" THEN t.v ELSE <<t.status, t.len>>

SendEv(i, cmd, a) == [e |-> "send", node |-> i, cmd |-> cmd, a |-> a, data |-> None]
RecvEv(i, data) == [e |-> "recv", node |-> i, cmd |-> 0, a |-> 0, data |-> data]
RaiseEv(i, status) == [e |-> "raise", node |-> i, cmd |-> 0, a |-> status, data |-> None]

\* no request log, no accelerator server, no client application
NoSide ==
  /\ wire = <<>>
  /\ accel = <<>>
  /\ app = <<>>

\* the Hive client runs in a process of its own: no local cluster, no codec
NoEngine ==
  /\ vcpus = <<>>
  /\ cluster = <<>>
  /\ workers = <<>>
  /\ caller = <<>>
  /\ hist = <<>>
  /\ codec = <<>>
  /\ NoSide

\* ---------------------------------------------------------- constructor
\* __init__: one socket per address that could be connected, in list order;
\* a failed connect is skipped; no node at all raises ConnectionError.
NewNodes(connected) ==
  LET as == SeqOfSet(connected)
  IN  [j \in 1..Len(as) |-> [sock |-> as[j], addr |-> as[j], vcpu_count |-> 0]]

Init ==
  /\ \E connected \in (SUBSET Addrs) \ {{}} : nodes = NewNodes(connected)
  /\ vcpu_map = <<>>
  /\ pc = "idle"
  /\ op = "none"
  /\ arg = 0
  /\ cur = 0
  /\ local = 0
  /\ need = 0
  /\ acc = ZeroAcc
  /\ result = NoResult
  /\ evLog = <<>>
  /\ mapAtStart = <<>>
  /\ nodesAtStart = <<>>
  /\ syncAtStart = TRUE
  /\ rx = [c \in Addrs |-> <<>>]
  /\ unanswered = [c \in Addrs |-> 0]
  /\ closed = [c \in Addrs |-> FALSE]
  /\ faults = 0
  /\ NoEngine

NumNodes == Len(nodes)
Sock(i) == nodes[i + 1].sock

\* requests sent on socket c whose complete response has not been read
Outstanding(c) ==
  unanswered[c] + Cardinality({j \in DOMAIN rx[c] : rx[c][j].fin})

MayCall == pc = "idle" /\ \A i \in 0..(NumNodes - 1) : Outstanding(Sock(i)) < MaxOutstanding

\* ------------------------------------------------------------- sharding
\* variant: the remainder test is off by one
CountFor_offByOne(total, M, i) ==
  (total \div M) + (IF i <= total % M THEN 1 ELSE 0)

\* spawn, line 54-55 and 60
CountFor(total, M, i) ==
  (total \div M) + (IF i < total % M THEN 1 ELSE 0)

\* variant: the new entries are put in front of the map
AppendBlock_prepend(map, i, count) ==
  [l \in 1..count |-> <<i, l - 1>>] \o map

\* variant: local ids counted from 1
AppendBlock_fromOne(map, i, count) ==
  map \o [l \in 1..count |-> <<i, l>>]

\* variant: range(1, count), the local id 0 is left out
AppendBlock_skipZero(map, i, count) ==
  map \o [l \in 1..(count - 1) |-> <<i, l>>]

\* spawn, line 70-72
AppendBlock(map, i, count) ==
  map \o [l \in 1..count |-> <<i, l - 1>>]

\* the loop index after iteration i's "continue" on count == 0
SkipEmpty(total, M, i) ==
  IF \E j \in i..(M - 1) : CountFor(total, M, j) # 0
  THEN CHOOSE j \in i..(M - 1) :
         /\ CountFor(total, M, j) # 0
         /\ \A h \in i..(j - 1) : CountFor(total, M, h) = 0
  ELSE M

RECURSIVE BlockStart(_, _, _)
\* spawn, line 57 and 72: the value of global_id when the loop reaches node i
BlockStart(total, M, i) ==
  IF i = 0 THEN 0
  ELSE BlockStart(total, M, i - 1) + CountFor(total, M, i - 1)

\* variant: the loop skips every other node
NextIndex_skip(i) == i + 2

\* the broadcast loops "for node in self.nodes"
NextIndex(i) == i + 1

\* ------------------------------------------------------- leaving a call
Return(value) ==
  /\ pc' = "done"
  /\ result' = [kind |-> "ok", status |-> 0, value |-> value]

\* variant: the exception does not carry the status
Raise_noStatus(kind, status) ==
  /\ pc' = "done"
  /\ result' = [kind |-> kind, status |-> 0, value |-> None]

Raise(kind, status) ==
  /\ pc' = "done"
  /\ result' = [kind |-> kind, status |-> status, value |-> None]

BeginCall(name, a) ==
  /\ MayCall
  /\ op' = name
  /\ arg' = a
  /\ evLog' = <<>>
  /\ mapAtStart' = vcpu_map
  /\ nodesAtStart' = nodes
  /\ syncAtStart' = \A j \in DOMAIN nodes :
                      rx[nodes[j].sock] = <<>> /\ unanswered[nodes[j].sock] = 0
  /\ need' = 0
  /\ acc' = ZeroAcc

\* ---------------------------------------------------------------- spawn
spawn ==
  \E total \in 0..MaxTotal :
    /\ Len(vcpu_map) + total <= MaxMap
    /\ BeginCall("spawn", total)
    /\ LET first == SkipEmpty(total, NumNodes, 0)
       IN  IF first >= NumNodes
           THEN Return(None) /\ cur' = 0
           ELSE pc' = "send" /\ cur' = first /\ UNCHANGED result
    /\ UNCHANGED <<local, hiveVars, netVars>>
    /\ UNCHANGED engineVars

\* -------------------------------------------------------------- routing
\* the guard "if vcpu_id >= len(self.vcpu_map): raise IndexError"
PassesRangeCheck(map, vcpu_id) == ~(vcpu_id >= Len(map))

\* position (1-based) that the list subscript self.vcpu_map[vcpu_id] reads:
\* a negative subscript counts from the end of the list
PyIndex(map, vcpu_id) ==
  IF vcpu_id >= 0 THEN vcpu_id + 1 ELSE Len(map) + vcpu_id + 1

\* variant: the global id is sent to the first node unrouted
Route_unrouted(map, vcpu_id) == <<0, vcpu_id>>

\* node_idx, local_id = self.vcpu_map[vcpu_id]
Route(map, vcpu_id) == map[PyIndex(map, vcpu_id)]

PerVcpuCall(name, v) ==
    /\ BeginCall(name, v)
    /\ IF PassesRangeCheck(vcpu_map, v) /\ PyIndex(vcpu_map, v) \in DOMAIN vcpu_map
       THEN /\ pc' = "send"
            /\ cur' = Route(vcpu_map, v)[1]
            /\ local' = Route(vcpu_map, v)[2]
            /\ UNCHANGED result
       ELSE /\ Raise("IndexError", 0)
            /\ UNCHANGED <<cur, local>>
    /\ UNCHANGED <<hiveVars, netVars>>

load_program ==
  \E v \in VcpuIds :
    /\ pc = "idle"
    /\ PerVcpuCall("load_program", v)
    /\ UNCHANGED engineVars

read_memory ==
  \E v \in VcpuIds :
    /\ pc = "idle"
    /\ PerVcpuCall("read_memory", v)
    /\ UNCHANGED engineVars

\* ------------------------------------------------------------ broadcasts
Broadcast(name) ==
  /\ BeginCall(name, 0)
  /\ pc' = "send"
  /\ cur' = 0
  /\ UNCHANGED <<result, local, hiveVars, netVars>>

run_all ==
  /\ pc = "idle"
  /\ Broadcast("run_all")
  /\ UNCHANGED engineVars

get_telemetry ==
  /\ pc = "idle"
  /\ Broadcast("get_telemetry")
  /\ UNCHANGED engineVars

\* -------------------------------------------------------------- _send_cmd
CmdOf(name) ==
  CASE name = "spawn" -> CMD_SPAWN_VCPU
    [] name = "load_program" -> CMD_LOAD_PROG
    [] name = "run_all" -> CMD_RUN_CLUSTER
    [] name = "read_memory" -> CMD_READ_MEM
    [] name = "get_telemetry" -> CMD_GET_STATS

\* first payload field of the command: count, local_id, or nothing routed
CmdArg(name) ==
  CASE name = "spawn" -> CountFor(arg, NumNodes, cur)
    [] name \in {"load_program", "read_memory"} -> local
    [] OTHER -> 0

\* sock.sendall(header + payload) on the socket of node cur
send_cmd ==
  /\ pc = "send"
  /\ unanswered' = [unanswered EXCEPT ![Sock(cur)] = @ + 1]
  /\ evLog' = Append(evLog, SendEv(cur, CmdOf(op), CmdArg(op)))
  /\ pc' = "recv_hdr"
  /\ UNCHANGED <<op, arg, cur, local, need, acc, result, mapAtStart,
                 nodesAtStart, syncAtStart, hiveVars, rx, closed, faults>>
  /\ UNCHANGED engineVars

\* ------------------------------------------------------------ _recv_resp
\* the loop target after the iteration of node i
LoopNext(i) ==
  IF op = "spawn" THEN SkipEmpty(arg, NumNodes, i + 1) ELSE NextIndex(i)

Continue(value) ==
  IF LoopNext(cur) >= NumNodes
  THEN Return(value) /\ cur' = cur
  ELSE pc' = "send" /\ cur' = LoopNext(cur) /\ UNCHANGED result

\* variant: the totals are overwritten instead of added to
Accumulate_overwrite(tot, data) ==
  IF data = None THEN tot
  ELSE [instr |-> data[1][1], gpu |-> data[1][2]]

\* get_telemetry, line 136-139
Accumulate(tot, data) ==
  IF data = None THEN tot
  ELSE [instr |-> tot.instr + data[1][1], gpu |-> tot.gpu + data[1][2]]

\* what the operation does with the value _recv_resp returned
AfterResp(data) ==
  /\ evLog' = Append(evLog, RecvEv(cur, IF op = "get_telemetry" THEN data ELSE None))
  /\ CASE op = "spawn" ->
            LET count == CountFor(arg, NumNodes, cur)
            IN  /\ vcpu_map' = AppendBlock(vcpu_map, cur, count)
                /\ nodes' = [nodes EXCEPT ![cur + 1].vcpu_count = @ + count]
                /\ Continue(None)
                /\ UNCHANGED acc
       [] op = "load_program" ->
            /\ Return(None)
            /\ UNCHANGED <<cur, acc, hiveVars>>
       [] op = "read_memory" ->
            /\ Return(data)
            /\ UNCHANGED <<cur, acc, hiveVars>>
       [] op = "run_all" ->
            /\ Continue(None)
            /\ UNCHANGED <<acc, hiveVars>>
       [] op = "get_telemetry" ->
            IF data # None /\ Len(data) # STATS_UNITS
            THEN /\ Raise("struct.error", 0)
                 /\ UNCHANGED <<cur, acc, hiveVars>>
            ELSE /\ acc' = Accumulate(acc, data)
                 /\ Continue(Accumulate(acc, data))
                 /\ UNCHANGED hiveVars

\* variant: the record of the failed node is dropped from self.nodes
RaiseFromRecv_dropNode(kind, status) ==
  /\ Raise(kind, status)
  /\ evLog' = Append(evLog, RaiseEv(cur, status))
  /\ nodes' = [j \in 1..(Len(nodes) - 1) |->
                IF j <= cur THEN nodes[j] ELSE nodes[j + 1]]
  /\ UNCHANGED <<cur, acc, vcpu_map>>

RaiseFromRecv(kind, status) ==
  /\ Raise(kind, status)
  /\ evLog' = Append(evLog, RaiseEv(cur, status))
  /\ UNCHANGED <<cur, acc, hiveVars>>

\* struct.unpack('III', header_data) of the unit at the head of the stream;
\* payload bytes taken for a header decode to anything
ParseHeader(t) ==
  IF t.k = "hdr"
  THEN {[status |-> t.status, len |-> t.len]}
  ELSE [status : Statuses, len : 0..MaxPayload]

\* _recv_resp, line 152-160: header read, status check, length check
recv_header ==
  /\ pc = "recv_hdr"
  /\ LET c == Sock(cur)
     IN  \/ /\ rx[c] # <<>>
            /\ rx' = [rx EXCEPT ![c] = Tail(@)]
            /\ \E h \in ParseHeader(Head(rx[c])) :
                 IF h.status # STATUS_OK
                 THEN RaiseFromRecv("RuntimeError", h.status) /\ need' = 0
                 ELSE IF h.len > 0
                 THEN /\ pc' = "recv_pay"
                      /\ need' = h.len
                      /\ UNCHANGED <<cur, acc, result, evLog, hiveVars>>
                 ELSE AfterResp(None) /\ need' = 0
         \/ /\ rx[c] = <<>>
            /\ closed[c]
            /\ RaiseFromRecv("ConnectionError", 0)
            /\ UNCHANGED <<rx, need>>
  /\ UNCHANGED <<op, arg, local, mapAtStart, nodesAtStart, syncAtStart,
                 unanswered, closed, faults>>
  /\ UNCHANGED engineVars

\* variant: a closed socket makes _recv_all return the bytes it has
recv_payload_short ==
  /\ pc = "recv_pay"
  /\ LET c == Sock(cur)
     IN  \/ /\ Len(rx[c]) >= need
            /\ rx' = [rx EXCEPT ![c] = SubSeq(@, need + 1, Len(@))]
            /\ AfterResp([j \in 1..need |-> TokVal(rx[c][j])])
         \/ /\ Len(rx[c]) < need
            /\ closed[c]
            /\ rx' = [rx EXCEPT ![c] = <<>>]
            /\ AfterResp([j \in 1..Len(rx[c]) |-> TokVal(rx[c][j])])
  /\ need' = 0
  /\ UNCHANGED <<op, arg, local, mapAtStart, nodesAtStart, syncAtStart,
                 unanswered, closed, faults>>
  /\ UNCHANGED engineVars

\* _recv_resp, line 159: self._recv_all(sock, length)
recv_payload ==
  /\ pc = "recv_pay"
  /\ LET c == Sock(cur)
     IN  \/ /\ Len(rx[c]) >= need
            /\ rx' = [rx EXCEPT ![c] = SubSeq(@, need + 1, Len(@))]
            /\ AfterResp([j \in 1..need |-> TokVal(rx[c][j])])
            /\ need' = 0
         \/ /\ Len(rx[c]) < need
            /\ closed[c]
            /\ rx' = [rx EXCEPT ![c] = <<>>]
            /\ RaiseFromRecv("ConnectionError", 0)
            /\ need' = need
  /\ UNCHANGED <<op, arg, local, mapAtStart, nodesAtStart, syncAtStart,
                 unanswered, closed, faults>>
  /\ UNCHANGED engineVars

\* the call returns (or the exception reaches the caller)
finish ==
  /\ pc = "done"
  /\ pc' = "idle"
  /\ op' = "none"
  /\ arg' = 0
  /\ cur' = 0
  /\ local' = 0
  /\ need' = 0
  /\ acc' = ZeroAcc
  /\ result' = NoResult
  /\ evLog' = <<>>
  /\ mapAtStart' = <<>>
  /\ nodesAtStart' = <<>>
  /\ syncAtStart' = TRUE
  /\ UNCHANGED <<hiveVars, netVars>>
  /\ UNCHANGED engineVars

\* ----------------------------------------------------------- environment
Socks == {nodes[j].sock : j \in DOMAIN nodes}

\* a node answers its oldest unanswered request
NodeRespond ==
  \E c \in Socks :
    /\ ~closed[c]
    /\ unanswered[c] > 0
    /\ \E status \in Statuses : \E payload \in Payloads(c) :
         /\ Len(rx[c]) + 1 + Len(payload) <= MaxRx
         /\ IF status = STATUS_OK
            THEN faults' = faults
            ELSE faults < MaxFaults /\ faults' = faults + 1
         /\ rx' = [rx EXCEPT ![c] = @ \o Response(status, payload)]
    /\ unanswered' = [unanswered EXCEPT ![c] = @ - 1]
    /\ UNCHANGED <<clientVars, hiveVars, closed>>
    /\ UNCHANGED engineVars

\* what a node has put on the wire of the response it is sending when it
\* closes: nothing, or a proper prefix of a 200 response (the header and
\* fewer payload units than the header announces)
Truncated(c) ==
  UNION {{SubSeq(Response(STATUS_OK, p), 1, k) : k \in 1..Len(p)} : p \in Payloads(c)}

\* a node closes its end of the connection, possibly in the middle of the
\* response to its oldest unanswered request
NodeClose ==
  \E c \in Socks :
    /\ ~closed[c]
    /\ faults < MaxFaults
    /\ \E part \in Truncated(c) \cup {<<>>} :
         /\ part # <<>> => unanswered[c] > 0 /\ Len(rx[c]) + Len(part) <= MaxRx
         /\ rx' = [rx EXCEPT ![c] = @ \o part]
    /\ closed' = [closed EXCEPT ![c] = TRUE]
    /\ faults' = faults + 1
    /\ UNCHANGED <<clientVars, hiveVars, unanswered>>
    /\ UNCHANGED engineVars

Next ==
  \/ spawn
  \/ load_program
  \/ read_memory
  \/ run_all
  \/ get_telemetry
  \/ send_cmd
  \/ recv_header
  \/ recv_payload
  \/ finish
  \/ NodeRespond
  \/ NodeClose

Spec == Init /\ [][Next]_vars

TypeOK ==
  /\ pc \in {"idle", "send", "recv_hdr", "recv_pay", "done"}
  /\ Len(vcpu_map) <= MaxMap

\* ======================================================================
\* The engine: instructions, vCPU contexts, cluster scheduler
\* ======================================================================
\* The engine library (libzepu_engine) is loaded by src/zepu/wrapper.py and
\* its sources are not in the repository; wrapper.py gives its data layout
\* (VCPU_CONTEXT, VCPU_CLUSTER, VCPU_INSTRUCTION), its entry points and the
\* opcode numbers.  What the entry points do is taken from the design text.

\* ---------------------------------------------------------------- bounds
MaxVcpus == 2        \* num_vcpus given to Cluster(...)
MaxWorkers == 2      \* thread_count given to Cluster(...)
MaxCycles == 2       \* cycles given to a run call

\* ------------------------------------------------------------- class Op
NOP == 0
ADD == 1
SUB == 2
MUL == 3
MOV == 5
LOAD == 6
STORE == 7
JMP == 8
CMP == 9
JZ == 10
JNZ == 11
HALT == 14
INC == 15
DEC == 16
STORE_INDIRECT == 27
LOAD_INDIRECT == 28
MATMUL == 29
VADD == 30

NUM_REGS == 16                 \* VCPU_CONTEXT.regs
MEM_SIZE == 268435456          \* bytes of private memory per vCPU
SLOT == 8                      \* bytes of one instruction slot
WORD == 8                      \* bytes of one register
GPU_THRESHOLD == 2048          \* operand size from which MATMUL / VADD offload
SIZE_REG == 3                  \* register holding the operand size
DEMO_RUNS == 2                 \* run calls of the demo: load, run, load, run

\* ------------------------------------------- 64-bit words, little-endian
\* a register value is its 8 bytes, least significant first
ZeroWord == [i \in 1..WORD |-> 0]

\* zero-extension of a 32-bit immediate below 2^31
ToWord(n) ==
  [i \in 1..WORD |->
     CASE i = 1 -> n % 256
       [] i = 2 -> (n \div 256) % 256
       [] i = 3 -> (n \div 65536) % 256
       [] i = 4 -> (n \div 16777216) % 256
       [] OTHER -> 0]

RECURSIVE AddFrom(_, _, _, _)
AddFrom(a, b, i, carry) ==
  IF i > WORD THEN <<>>
  ELSE LET s == a[i] + b[i] + carry
       IN  <<s % 256>> \o AddFrom(a, b, i + 1, s \div 256)

\* a + b modulo 2^64
AddW(a, b) == AddFrom(a, b, 1, 0)

RECURSIVE SubFrom(_, _, _, _)
SubFrom(a, b, i, borrow) ==
  IF i > WORD THEN <<>>
  ELSE LET d == a[i] - b[i] - borrow
       IN  <<(d + 256) % 256>> \o SubFrom(a, b, i + 1, IF d < 0 THEN 1 ELSE 0)

\* a - b modulo 2^64
SubW(a, b) == SubFrom(a, b, 1, 0)

RECURSIVE MulByteFrom(_, _, _, _)
MulByteFrom(a, d, i, carry) ==
  IF i > WORD THEN <<>>
  ELSE LET p == a[i] * d + carry
       IN  <<p % 256>> \o MulByteFrom(a, d, i + 1, p \div 256)

\* w * 256^k modulo 2^64
ShiftW(w, k) == [i \in 1..WORD |-> IF i <= k THEN 0 ELSE w[i - k]]

RECURSIVE MulFrom(_, _, _)
MulFrom(a, b, i) ==
  IF i > WORD THEN ZeroWord
  ELSE AddW(ShiftW(MulByteFrom(a, b[i], 1, 0), i - 1), MulFrom(a, b, i + 1))

\* a * b modulo 2^64
MulW(a, b) == MulFrom(a, b, 1)

OneWord == ToWord(1)

\* the word as a byte address, or MEM_SIZE when it lies beyond every buffer
AddrOf(w) ==
  IF \A i \in 5..WORD : w[i] = 0
  THEN IF w[4] >= 16 THEN MEM_SIZE
       ELSE w[1] + 256 * w[2] + 65536 * w[3] + 16777216 * w[4]
  ELSE MEM_SIZE

\* w >= n, for n below MEM_SIZE
AtLeast(w, n) == AddrOf(w) >= n

\* ------------------------------------------------------ private memory
\* a buffer is the function from the byte addresses that have been given a
\* value to that value; every other byte of the buffer reads as zero
EmptyMem == [a \in {} |-> 0]

ReadByte(mem, a) == IF a \in DOMAIN mem THEN mem[a] ELSE 0

\* the 8 bytes at a..a+7 as a word
ReadWord(mem, a) == [i \in 1..WORD |-> ReadByte(mem, a + i - 1)]

WriteWord(mem, a, w) ==
  [x \in DOMAIN mem \cup (a..(a + WORD - 1)) |->
     IF x \in a..(a + WORD - 1) THEN w[x - a + 1] ELSE mem[x]]

\* bounds check of an 8-byte access against the private buffer
InBounds(a) == a >= 0 /\ a + WORD <= MEM_SIZE

\* ----------------------------------------------------------- VCPU_CONTEXT
NewContext(id) ==
  [regs |-> [r \in 0..(NUM_REGS - 1) |-> ZeroWord],
   ip |-> 0,
   zf |-> FALSE,
   mem |-> EmptyMem,
   state |-> "Idle",
   cycle_count |-> 0,
   prog |-> <<>>,
   id |-> id]

\* variant: a load leaves the execution state of the vCPU as it was
LoadInto_keepState(ctx, program) ==
  [ctx EXCEPT !.prog = program, !.ip = 0, !.zf = FALSE]

\* vcpu_load_program(vcpu, instructions, count, 0): the program replaces the
\* old one and the vCPU is executable again from its first instruction
LoadInto(ctx, program) ==
  [ctx EXCEPT !.prog = program, !.ip = 0, !.zf = FALSE, !.state = "Idle"]

KnownOpcodes ==
  {NOP, ADD, SUB, MUL, MOV, LOAD, STORE, JMP, CMP, JZ, JNZ, HALT, INC, DEC,
   STORE_INDIRECT, LOAD_INDIRECT, MATMUL, VADD}

\* the instruction at the instruction pointer, a byte offset into the program
CanFetch(ctx) == ctx.ip % SLOT = 0 /\ ctx.ip \div SLOT < Len(ctx.prog)
Fetch(ctx) == ctx.prog[ctx.ip \div SLOT + 1]

Executable(ctx) == ctx.state \in {"Idle", "Running"}

Fault(ctx) == [ctx EXCEPT !.state = "Faulted"]

\* the instruction is retired: one cycle counted, next slot
Retire(ctx) ==
  [ctx EXCEPT !.ip = @ + SLOT, !.cycle_count = @ + 1, !.state = "Running"]

\* a taken branch is retired with the instruction pointer set to the target
RetireAt(ctx, target) ==
  [ctx EXCEPT !.ip = target, !.cycle_count = @ + 1, !.state = "Running"]

SetReg(ctx, r, w) == [ctx EXCEPT !.regs[r] = w]

\* variant: ADD takes its second operand from the immediate field
Operand2_imm(ctx, ins) == ctx.regs[ins[4] % NUM_REGS]

\* the second operand of ADD / SUB / MUL and the address register of the
\* indirect accesses: the register named by reg_b
Operand2(ctx, ins) == ctx.regs[ins[3]]

\* one fetch-decode-execute step of a vCPU that is executable
Execute(ctx) ==
  IF ~CanFetch(ctx) THEN Fault(ctx)
  ELSE
  LET ins == Fetch(ctx)
      opc == ins[1]
      a == ins[2]
      imm == ins[4]
  IN  IF opc \notin KnownOpcodes \/ a >= NUM_REGS \/ ins[3] >= NUM_REGS
      THEN Fault(ctx)
      ELSE
      CASE opc = NOP -> Retire(ctx)
        [] opc = ADD -> Retire(SetReg(ctx, a, AddW(ctx.regs[a], Operand2(ctx, ins))))
        [] opc = SUB -> Retire(SetReg(ctx, a, SubW(ctx.regs[a], Operand2(ctx, ins))))
        [] opc = MUL -> Retire(SetReg(ctx, a, MulW(ctx.regs[a], Operand2(ctx, ins))))
        [] opc = MOV -> Retire(SetReg(ctx, a, ToWord(imm)))
        [] opc = CMP -> Retire([ctx EXCEPT !.zf = (ctx.regs[a] = ToWord(imm))])
        [] opc = INC ->
             LET w == AddW(ctx.regs[a], OneWord)
             IN  Retire([SetReg(ctx, a, w) EXCEPT !.zf = (w = ZeroWord)])
        [] opc = DEC ->
             LET w == SubW(ctx.regs[a], OneWord)
             IN  Retire([SetReg(ctx, a, w) EXCEPT !.zf = (w = ZeroWord)])
        [] opc = LOAD ->
             IF InBounds(imm)
             THEN Retire(SetReg(ctx, a, ReadWord(ctx.mem, imm)))
             ELSE Fault(ctx)
        [] opc = STORE ->
             IF InBounds(imm)
             THEN Retire([ctx EXCEPT !.mem = WriteWord(@, imm, ctx.regs[a])])
             ELSE Fault(ctx)
        [] opc = LOAD_INDIRECT ->
             LET addr == AddrOf(Operand2(ctx, ins))
             IN  IF InBounds(addr)
                 THEN Retire(SetReg(ctx, a, ReadWord(ctx.mem, addr)))
                 ELSE Fault(ctx)
        [] opc = STORE_INDIRECT ->
             LET addr == AddrOf(Operand2(ctx, ins))
             IN  IF InBounds(addr)
                 THEN Retire([ctx EXCEPT !.mem = WriteWord(@, addr, ctx.regs[a])])
                 ELSE Fault(ctx)
        [] opc = JMP -> RetireAt(ctx, imm)
        [] opc = JZ -> IF ctx.zf THEN RetireAt(ctx, imm) ELSE Retire(ctx)
        [] opc = JNZ -> IF ctx.zf THEN Retire(ctx) ELSE RetireAt(ctx, imm)
        [] opc \in {MATMUL, VADD} -> Retire(ctx)
        [] opc = HALT -> [ctx EXCEPT !.cycle_count = @ + 1, !.state = "Halted"]

\* a run request puts a vCPU that is ready into Running
StartRun(ctx) ==
  IF ctx.state = "Idle" THEN [ctx EXCEPT !.state = "Running"] ELSE ctx

\* MATMUL / VADD whose operand size is at or above the threshold
IsOffloadOp(ctx) == CanFetch(ctx) /\ Fetch(ctx)[1] \in {MATMUL, VADD}

\* variant: a size just below the threshold qualifies as well
Qualifies_below(ctx) ==
  IsOffloadOp(ctx) /\ AtLeast(ctx.regs[SIZE_REG], GPU_THRESHOLD - 1)

Qualifies(ctx) ==
  IsOffloadOp(ctx) /\ AtLeast(ctx.regs[SIZE_REG], GPU_THRESHOLD)

\* ------------------------------------------------------ input programs
\* Instruction tuples (opcode, reg_a, reg_b, immediate) as load_program takes
\* them.  The programs given to the scheduler are the shortest ones of each
\* kind the examples load: one that halts, a loop that outlasts every budget,
\* one with an opcode outside class Op (4), and the matrix program of
\* benchmark_gpu_matmul without its two pointer moves.
P_halt == <<<<MOV, 0, 0, 1>>, <<HALT, 0, 0, 0>>>>
P_spin == <<<<JMP, 0, 0, 0>>>>
P_bad == <<<<NOP, 0, 0, 0>>, <<4, 0, 0, 0>>>>
P_matmul(size) == <<<<MOV, 3, 0, size>>, <<MATMUL, 0, 1, 3000>>, <<HALT, 0, 0, 0>>>>

EnginePrograms ==
  {P_halt, P_spin, P_bad, P_matmul(GPU_THRESHOLD), P_matmul(GPU_THRESHOLD - 1)}

\* -------------------------------------------------------- VCPU_CLUSTER
Parked == [pc |-> "parked", v |-> 0, budget |-> 0, count |-> 0, tmp |-> 0]

NoHist(n) ==
  [startTotal |-> 0,
   cycles |-> 0,
   retired |-> [j \in 1..n |-> 0],
   claims |-> [j \in 1..n |-> 0],
   sent |-> 0,
   reloadedAt |-> [j \in 1..n |-> 0 - 1]]

\* vcpu_cluster_create(num_vcpus, mem, shared_mem, thread_count); up tells
\* whether the accelerator endpoint accepts connections
NewCluster(n, t, up) ==
  /\ vcpus = [j \in 1..n |-> NewContext(j - 1)]
  /\ cluster = [vcpu_count |-> n, thread_count |-> t, total_instructions |-> 0,
                gpu_offloads |-> 0, global_task_index |-> 0, lock |-> 0,
                accel_up |-> up]
  /\ workers = [w \in 1..t |-> Parked]
  /\ caller = [pc |-> "idle", cycles |-> 0, runs |-> 0, loaded |-> FALSE]
  /\ hist = NoHist(n)

\* the engine runs in a process without Hive client
NoHive ==
  /\ nodes = <<>>
  /\ vcpu_map = <<>>
  /\ pc = "idle"
  /\ op = "none"
  /\ arg = 0
  /\ cur = 0
  /\ local = 0
  /\ need = 0
  /\ acc = ZeroAcc
  /\ result = NoResult
  /\ evLog = <<>>
  /\ mapAtStart = <<>>
  /\ nodesAtStart = <<>>
  /\ syncAtStart = TRUE
  /\ rx = [c \in Addrs |-> <<>>]
  /\ unanswered = [c \in Addrs |-> 0]
  /\ closed = [c \in Addrs |-> FALSE]
  /\ faults = 0

allHiveVars == <<clientVars, hiveVars, netVars>>

InitEngine ==
  /\ \E n \in 1..MaxVcpus, t \in 1..MaxWorkers, up \in BOOLEAN :
       NewCluster(n, t, up)
  /\ codec = <<>>
  /\ NoHive
  /\ NoSide

Ctx(v) == vcpus[v + 1]
WorkerIds == DOMAIN workers

\* Cluster.load_program(vcpu_id, instructions)
Cluster_load_program ==
  \E v \in 0..(MaxVcpus - 1), program \in EnginePrograms :
    /\ caller.pc = "idle"
    /\ caller.runs < DEMO_RUNS
    /\ ~caller.loaded
    /\ ~(v >= cluster.vcpu_count)
    /\ vcpus' = [vcpus EXCEPT ![v + 1] = LoadInto(@, program)]
    /\ hist' = [hist EXCEPT !.reloadedAt[v + 1] =
                  IF Ctx(v).state = "Halted" THEN Ctx(v).cycle_count ELSE @]
    /\ caller' = [caller EXCEPT !.loaded = TRUE]
    /\ UNCHANGED <<cluster, workers, codec, allHiveVars, sideVars>>

\* variant: the work index of the previous batch is kept
FirstIndex_stale(c) == c.global_task_index

\* the work index at the start of a batch
FirstIndex(c) == 0

\* variant: one budget unit more than asked for
BudgetFor_plusOne(cycles) == cycles + 1

\* the budget of one vCPU in one run call
BudgetFor(cycles) == cycles

\* Cluster.run(cycles): vcpu_cluster_execute_parallel starts the batch
Cluster_run ==
  \E cycles \in {MaxCycles} :
    /\ caller.pc = "idle"
    /\ caller.runs < DEMO_RUNS
    /\ caller' = [pc |-> "run", cycles |-> cycles, runs |-> caller.runs + 1,
                  loaded |-> FALSE]
    /\ cluster' = [cluster EXCEPT !.global_task_index = FirstIndex(cluster)]
    /\ workers' = [w \in WorkerIds |-> [Parked EXCEPT !.pc = "claim"]]
    /\ hist' = [NoHist(cluster.vcpu_count) EXCEPT
                  !.startTotal = cluster.total_instructions,
                  !.cycles = cycles,
                  !.sent = hist.sent,
                  !.reloadedAt = hist.reloadedAt]
    /\ UNCHANGED <<vcpus, codec, allHiveVars, sideVars>>

\* whether the next instruction goes to the accelerator
Offloads(ctx, up) == Qualifies(ctx) /\ up

RECURSIVE RunSlice(_, _, _)
\* the fetch-decode-execute loop of one vCPU, up to the point where it
\* halts, faults, has used its budget or has to wait for the accelerator;
\* the context is private to the worker that owns it  (the context after
\* an instruction is bound to a name so that it is computed once)
RunSlice(ctx, budget, up) ==
  IF ctx.state # "Running" \/ budget = 0 \/ Offloads(ctx, up)
  THEN [ctx |-> ctx, budget |-> budget]
  ELSE CHOOSE r \in {RunSlice(next, budget - 1, up) : next \in {Execute(ctx)}} : TRUE

\* worker w executes vCPU v from the context ctx0 up to the end of the slice,
\* where it goes for the lock, or up to a qualifying instruction, which it
\* sends to the accelerator; count0 instructions were retired before
Slice(w, v, ctx0, budget, count0) ==
  \E r \in {RunSlice(ctx0, budget, cluster.accel_up)} :
    LET waits == r.ctx.state = "Running" /\ r.budget > 0
        count == count0 + (r.ctx.cycle_count - ctx0.cycle_count)
    IN  /\ vcpus' = [vcpus EXCEPT ![v + 1] = r.ctx]
        /\ workers' = [workers EXCEPT ![w] =
              [pc |-> IF waits THEN "await_ack" ELSE "lock",
               v |-> v, budget |-> r.budget, count |-> count, tmp |-> 0]]
        /\ hist' = [hist EXCEPT
              !.claims[v + 1] = IF workers[w].pc = "claim" THEN @ + 1 ELSE @,
              !.retired[v + 1] = @ + (r.ctx.cycle_count - Ctx(v).cycle_count),
              !.sent = IF waits THEN @ + 1 ELSE @]

\* a worker takes the next index from the shared atomic work index and
\* executes that vCPU with a fresh budget
Claim(w) ==
  /\ workers[w].pc = "claim"
  /\ LET i == cluster.global_task_index
     IN  /\ cluster' = [cluster EXCEPT !.global_task_index = i + 1]
         /\ IF i < cluster.vcpu_count
            THEN Slice(w, i, StartRun(Ctx(i)), BudgetFor(caller.cycles), 0)
            ELSE /\ workers' = [workers EXCEPT ![w] = [Parked EXCEPT !.pc = "barrier"]]
                 /\ UNCHANGED <<vcpus, hist>>
  /\ UNCHANGED <<caller, codec, allHiveVars, sideVars>>

\* variant: the shared counters are updated without the lock
LockFree_ignored(c) == TRUE

LockFree(c) == c.lock = 0

\* the acknowledgment byte arrives: the dispatch is counted under the lock,
\* the instruction is retired and the worker goes on with the slice
AccelAck(w) ==
  /\ workers[w].pc = "await_ack"
  /\ LockFree(cluster)
  /\ cluster' = [cluster EXCEPT !.gpu_offloads = @ + 1]
  /\ Slice(w, workers[w].v, Retire(Ctx(workers[w].v)), workers[w].budget - 1,
           workers[w].count + 1)
  /\ UNCHANGED <<caller, codec, allHiveVars, sideVars>>

\* the worker takes the lock and reads the shared instruction counter
AccLock(w) ==
  /\ workers[w].pc = "lock"
  /\ LockFree(cluster)
  /\ cluster' = [cluster EXCEPT !.lock = w]
  /\ workers' = [workers EXCEPT ![w].pc = "add",
                                ![w].tmp = cluster.total_instructions]
  /\ UNCHANGED <<vcpus, caller, hist, codec, allHiveVars, sideVars>>

\* the worker writes the counter plus its local count and releases the lock
AccAdd(w) ==
  /\ workers[w].pc = "add"
  /\ cluster' = [cluster EXCEPT !.total_instructions = workers[w].tmp + workers[w].count,
                                !.lock = 0]
  /\ workers' = [workers EXCEPT ![w] = [Parked EXCEPT !.pc = "claim"]]
  /\ UNCHANGED <<vcpus, caller, hist, codec, allHiveVars, sideVars>>

\* variant: the call returns as soon as one worker has reached the barrier
BarrierOpen_any(ws) == \E w \in DOMAIN ws : ws[w].pc = "barrier"

\* the cycle barrier: every worker has finished the batch
BarrierOpen(ws) == \A w \in DOMAIN ws : ws[w].pc = "barrier"

\* vcpu_cluster_execute_parallel returns to the caller
RunReturn ==
  /\ caller.pc = "run"
  /\ BarrierOpen(workers)
  /\ caller' = [caller EXCEPT !.pc = "idle"]
  /\ workers' = [w \in WorkerIds |->
                   IF workers[w].pc = "barrier" THEN Parked ELSE workers[w]]
  /\ UNCHANGED <<vcpus, cluster, hist, codec, allHiveVars, sideVars>>

claim == \E w \in WorkerIds : Claim(w)
accel_ack == \E w \in WorkerIds : AccelAck(w)
acc_lock == \E w \in WorkerIds : AccLock(w)
acc_add == \E w \in WorkerIds : AccAdd(w)

NextEngine ==
  \/ Cluster_load_program
  \/ Cluster_run
  \/ claim
  \/ accel_ack
  \/ acc_lock
  \/ acc_add
  \/ RunReturn

SpecEngine == InitEngine /\ [][NextEngine]_vars

\* the operating system keeps running some thread that can take a step, and
\* the accelerator server answers a request it has received
FairSpecEngine == SpecEngine /\ WF_vars(NextEngine)

\* ======================================================================
\* The example programs on a cluster with one worker thread per vCPU
\* (Cluster(num_vcpus=8, thread_count=8) in demo_pytorch_style.py): every
\* vCPU is executed by a thread of its own, one instruction per step, so the
\* vCPUs of the cluster interleave freely.
\* ======================================================================
MaxSize == 2         \* largest element count given to a vector-add program
MaxVal == 1          \* largest value found in memory that was never written

ProgVcpus == 2       \* the vCPU a program is checked on and one neighbour
BASE_A == 1000
BASE_B == 2000
BASE_C == 3000
RESULT_OFFSET == 64
MIN_BUDGET == 5

\* docker_hive_test.py: R0 = 123 + 456 stored at offset 64
P_store579 ==
  <<<<MOV, 0, 0, 123>>, <<MOV, 1, 0, 456>>, <<ADD, 0, 1, 0>>,
    <<MOV, 2, 0, RESULT_OFFSET>>, <<STORE_INDIRECT, 0, 2, 0>>, <<HALT, 0, 0, 0>>>>

\* the loop body both vector-add programs share, tuples as they are shipped
VecBody ==
  <<<<LOAD_INDIRECT, 4, 0, 0>>, <<LOAD_INDIRECT, 5, 0, 1>>,
    <<ADD, 4, 0, 5>>, <<STORE_INDIRECT, 4, 0, 2>>,
    <<ADD, 0, 0, 6>>, <<ADD, 1, 0, 6>>, <<ADD, 2, 0, 6>>,
    <<DEC, 3, 0, 0>>>>

VecHead(size) ==
  <<<<MOV, 0, 0, BASE_A>>, <<MOV, 1, 0, BASE_B>>, <<MOV, 2, 0, BASE_C>>,
    <<MOV, 3, 0, size>>, <<MOV, 6, 0, 8>>, <<CMP, 3, 0, 0>>>>

\* benchmark_comparison_torch.py, program_vec: targets 16 * 8 and 5 * 8
program_vec(size) ==
  VecHead(size) \o <<<<JZ, 0, 0, 16 * 8>>>> \o VecBody
    \o <<<<JMP, 0, 0, 5 * 8>>, <<HALT, 0, 0, 0>>>>

\* demo_pytorch_style.py, benchmark_vector_add: targets 15 and 5
benchmark_vector_add(size) ==
  VecHead(size) \o <<<<JZ, 0, 0, 15>>>> \o VecBody
    \o <<<<JMP, 0, 0, 5>>, <<HALT, 0, 0, 0>>>>

Sizes == 0..MaxSize
VecPrograms == {program_vec(s) : s \in Sizes} \cup {benchmark_vector_add(s) : s \in Sizes}
ProgPrograms == {P_store579} \cup VecPrograms

\* the element count a vector-add program was built for
SizeOf(program) == program[4][4]

\* instructions a vector-add over size elements retires up to and with HALT
Enough(size) == 5 + 11 * size + 3

\* memory nobody has written since the cluster was created: the arrays A and
\* B and the result slot hold whatever the buffer held
FoundMem(a, b) ==
  [x \in UNION {BASE_A + WORD * i .. BASE_A + WORD * i + WORD - 1 : i \in 0..(MaxSize - 1)}
         \cup UNION {BASE_B + WORD * i .. BASE_B + WORD * i + WORD - 1 : i \in 0..(MaxSize - 1)}
         \cup (RESULT_OFFSET .. RESULT_OFFSET + WORD - 1) |->
     IF x >= BASE_B THEN (IF (x - BASE_B) % WORD = 0 THEN b ELSE 0)
     ELSE IF x >= BASE_A THEN (IF (x - BASE_A) % WORD = 0 THEN a + (x - BASE_A) \div WORD ELSE 0)
     ELSE IF x = RESULT_OFFSET THEN a ELSE 0]

InitProg ==
  /\ \E a \in 0..MaxVal, b \in 0..MaxVal :
       /\ vcpus = [j \in 1..ProgVcpus |-> [NewContext(j - 1) EXCEPT !.mem = FoundMem(a, b)]]
       /\ hist = [mem0 |-> FoundMem(a, b)]
  /\ cluster = [vcpu_count |-> ProgVcpus, thread_count |-> ProgVcpus]
  /\ workers = [w \in 1..ProgVcpus |-> Parked]
  /\ caller = [pc |-> "idle", cycles |-> 0, runs |-> 0, data |-> <<>>, from |-> 0]
  /\ codec = <<>>
  /\ NoHive
  /\ NoSide

\* Cluster.load_program before the run, once per vCPU
Prog_load_program ==
  \E v \in 0..(ProgVcpus - 1), program \in ProgPrograms :
    /\ caller.pc = "idle"
    /\ caller.runs = 0
    /\ ~(v >= cluster.vcpu_count)
    /\ Ctx(v).prog = <<>>
    /\ vcpus' = [vcpus EXCEPT ![v + 1] = LoadInto(@, program)]
    /\ UNCHANGED <<cluster, workers, caller, hist, codec, allHiveVars, sideVars>>

\* Cluster.run(cycles): every worker takes the vCPU of its own index
Prog_run ==
  \E cycles \in {MIN_BUDGET, Enough(MaxSize)} :
    /\ caller.pc = "idle"
    /\ caller.runs = 0
    /\ \E v \in 0..(ProgVcpus - 1) : Ctx(v).prog # <<>>
    /\ caller' = [caller EXCEPT !.pc = "run", !.cycles = cycles, !.runs = 1]
    /\ vcpus' = [j \in DOMAIN vcpus |-> StartRun(vcpus[j])]
    /\ workers' = [w \in DOMAIN workers |->
                     [pc |-> "exec", v |-> w - 1, budget |-> BudgetFor(cycles),
                      count |-> 0, tmp |-> 0]]
    /\ UNCHANGED <<cluster, hist, codec, allHiveVars, sideVars>>

\* one instruction of the vCPU of worker w
ProgStep(w) ==
  /\ caller.pc = "run"
  /\ workers[w].pc = "exec"
  /\ workers[w].budget > 0
  /\ Ctx(workers[w].v).state = "Running"
  /\ vcpus' = [vcpus EXCEPT ![workers[w].v + 1] = Execute(@)]
  /\ workers' = [workers EXCEPT ![w].budget = @ - 1, ![w].count = @ + 1]
  /\ UNCHANGED <<cluster, caller, hist, codec, allHiveVars, sideVars>>

prog_step == \E w \in WorkerIds : ProgStep(w)

\* the run returns when no vCPU can retire another instruction
Prog_return ==
  /\ caller.pc = "run"
  /\ \A w \in WorkerIds :
       workers[w].budget = 0 \/ Ctx(workers[w].v).state # "Running"
  /\ caller' = [caller EXCEPT !.pc = "idle"]
  /\ workers' = [w \in DOMAIN workers |-> Parked]
  /\ UNCHANGED <<vcpus, cluster, hist, codec, allHiveVars, sideVars>>

\* read_memory(v, 64, 8) after the run: the bytes of that vCPU's buffer
Prog_read_memory ==
  \E v \in 0..(ProgVcpus - 1) :
    /\ caller.pc = "idle"
    /\ caller.runs = 1
    /\ caller.data = <<>>
    /\ caller' = [caller EXCEPT !.data = ReadWord(Ctx(v).mem, RESULT_OFFSET), !.from = v]
    /\ UNCHANGED <<vcpus, cluster, workers, hist, codec, allHiveVars, sideVars>>

NextProg ==
  \/ Prog_load_program
  \/ Prog_run
  \/ prog_step
  \/ Prog_return
  \/ Prog_read_memory

SpecProg == InitProg /\ [][NextProg]_vars

\* ======================================================================
\* The instruction bytes of load_program: every tuple of the program is
\* packed into the byte string that is sent, and the engine reads the
\* instructions back from it slot by slot.
\* ======================================================================
MaxLen == 2          \* instructions in a program given to load_program

\* field values at the ends and in the middle of their ranges; the sample
\* immediate 16r12345678 has four different bytes
OpcodeSamples == {HALT, 255}
RegASamples == {0, 255}
RegBSamples == {1, 15}
ImmSamples == {0, 305419896, 2147483647}

Tuples == {<<o, a, b, i>> : o \in OpcodeSamples, a \in RegASamples,
                             b \in RegBSamples, i \in ImmSamples}

CodecPrograms ==
  UNION {[1..n -> Tuples] : n \in 1..MaxLen}

\* variant: struct.pack('=BBBI', ...), the fields without the padding byte
Encode_packed(instr) ==
  <<instr[1], instr[2], instr[3],
    instr[4] % 256, (instr[4] \div 256) % 256,
    (instr[4] \div 65536) % 256, (instr[4] \div 16777216) % 256>>

\* struct.pack('BBBxI', instr[0], instr[1], instr[2], instr[3]): three
\* bytes, one zero byte that aligns the immediate, the immediate as four
\* bytes least significant first
Encode(instr) ==
  <<instr[1], instr[2], instr[3], 0,
    instr[4] % 256, (instr[4] \div 256) % 256,
    (instr[4] \div 65536) % 256, (instr[4] \div 16777216) % 256>>

\* the engine's view of slot k of the instruction bytes
SlotAt(bytes, k) == SubSeq(bytes, SLOT * k + 1, SLOT * k + SLOT)

\* {opcode: u8, reg_a: u8, reg_b: u8, immediate: u32} read from one slot
Decode(slot) ==
  <<slot[1], slot[2], slot[3],
    slot[5] + 256 * slot[6] + 65536 * slot[7] + 16777216 * slot[8]>>

InitCodec ==
  /\ \E program \in CodecPrograms :
       codec = [instructions |-> program, instr_bytes |-> <<>>, packed |-> 0,
                loaded |-> <<>>]
  /\ vcpus = <<>>
  /\ cluster = <<>>
  /\ workers = <<>>
  /\ caller = <<>>
  /\ hist = <<>>
  /\ NoHive
  /\ NoSide

\* one iteration of `for instr in instructions: instr_bytes += struct.pack(...)`
pack_instr ==
  /\ codec.packed < Len(codec.instructions)
  /\ codec' = [codec EXCEPT !.instr_bytes = @ \o Encode(codec.instructions[codec.packed + 1]),
                            !.packed = @ + 1]
  /\ UNCHANGED <<vcpus, cluster, workers, caller, hist, allHiveVars, sideVars>>

\* the engine takes the next instruction out of the bytes it received
unpack_instr ==
  /\ codec.packed = Len(codec.instructions)
  /\ Len(codec.loaded) < Len(codec.instructions)
  /\ SLOT * (Len(codec.loaded) + 1) <= Len(codec.instr_bytes)
  /\ codec' = [codec EXCEPT !.loaded = Append(@, Decode(SlotAt(codec.instr_bytes, Len(codec.loaded))))]
  /\ UNCHANGED <<vcpus, cluster, workers, caller, hist, allHiveVars, sideVars>>

NextCodec ==
  \/ pack_instr
  \/ unpack_instr

SpecCodec == InitCodec /\ [][NextCodec]_vars

\* ======================================================================
\* The bytes of a request (distributed.py, _send_cmd and its callers)
\* ======================================================================
\* magic = 0x56435055
MAGIC == 1447252053
\* memory_size_kb=1024, the default of spawn
MEM_KB == 1024

notSide == <<vcpus, cluster, workers, caller, hist, codec, allHiveVars>>

\* n as w bytes, least significant first
RECURSIVE LE(_, _)
LE(n, w) == IF w = 0 THEN <<>> ELSE <<n % 256>> \o LE(n \div 256, w - 1)

\* struct.pack(fmt, *vals) in native mode, appended to out: every field is
\* preceded by zero bytes up to a multiple of its alignment. 'I' is 4 bytes
\* aligned to 4; 'Q' is 8 bytes aligned as the C compiler of the build aligns
\* unsigned long long, wire.alignQ
RECURSIVE StructPack(_, _, _)
StructPack(fmt, vals, out) ==
  IF fmt = <<>> THEN out
  ELSE LET size == IF Head(fmt) = "Q" THEN 8 ELSE 4
           align == IF Head(fmt) = "Q" THEN wire.alignQ ELSE 4
           pad == (align - (Len(out) % align)) % align
       IN  StructPack(Tail(fmt), Tail(vals),
                      out \o [j \in 1..pad |-> 0] \o LE(Head(vals), size))

\* _send_cmd: header = struct.pack('IIII', magic, cmd, req_id, len(payload))
\* with req_id = 0, then sock.sendall(header + payload)
Request(cmd, payload) ==
  [cmd |-> cmd,
   data |-> StructPack(<<"I", "I", "I", "I">>, <<MAGIC, cmd, 0, Len(payload)>>, <<>>)
              \o payload]

\* the interpreter runs on a build whose C compiler aligns a 64-bit integer
\* to 8 bytes (x86-64, arm64) or to 4 bytes (i386)
InitWire ==
  /\ \E a \in {4, 8} : 
       wire = [alignQ |-> a, req |-> [cmd |-> 0, data |-> <<>>], instrs |-> 0]
  /\ accel = <<>>
  /\ app = <<>>
  /\ vcpus = <<>>
  /\ cluster = <<>>
  /\ workers = <<>>
  /\ caller = <<>>
  /\ hist = <<>>
  /\ codec = <<>>
  /\ NoHive

\* no request is being sent
NoRequest == [cmd |-> 0, data |-> <<>>]

\* spawn: payload = struct.pack('II', count, memory_size_kb)
send_spawn ==
  /\ wire.req = NoRequest
  /\ \E count \in 1..MaxTotal :
       wire' = [wire EXCEPT !.req = Request(CMD_SPAWN_VCPU,
                                      StructPack(<<"I", "I">>, <<count, MEM_KB>>, <<>>))]
  /\ UNCHANGED <<notSide, accel, app>>

\* load_program: struct.pack('II', local_id, len(instructions)) + instr_bytes
send_load_program ==
  /\ wire.req = NoRequest
  /\ \E local_id \in 0..(MaxTotal - 1), instructions \in CodecPrograms \cup {<<>>} :
       LET header == StructPack(<<"I", "I">>, <<local_id, Len(instructions)>>, <<>>)
           instr_bytes == [b \in 1..(SLOT * Len(instructions)) |->
                             Encode(instructions[((b - 1) \div SLOT) + 1])[((b - 1) % SLOT) + 1]]
       IN  wire' = [wire EXCEPT !.req = Request(CMD_LOAD_PROG, header \o instr_bytes),
                                !.instrs = Len(instructions)]
  /\ UNCHANGED <<notSide, accel, app>>

\* run_all: payload = struct.pack('Q', cycles)
send_run_all ==
  /\ wire.req = NoRequest
  /\ \E cycles \in {1, 1000} :
       wire' = [wire EXCEPT !.req = Request(CMD_RUN_CLUSTER,
                                      StructPack(<<"Q">>, <<cycles>>, <<>>))]
  /\ UNCHANGED <<notSide, accel, app>>

\* read_memory: payload = struct.pack('IQQ', local_id, offset, size)
send_read_memory ==
  /\ wire.req = NoRequest
  /\ \E local_id \in 0..(MaxTotal - 1), offset \in {0, RESULT_OFFSET}, size \in {1, WORD} :
       wire' = [wire EXCEPT !.req = Request(CMD_READ_MEM,
                                      StructPack(<<"I", "Q", "Q">>, <<local_id, offset, size>>, <<>>))]
  /\ UNCHANGED <<notSide, accel, app>>

\* get_telemetry: _send_cmd(node['sock'], CMD_GET_STATS, b'')
send_get_telemetry ==
  /\ wire.req = NoRequest
  /\ wire' = [wire EXCEPT !.req = Request(CMD_GET_STATS, <<>>)]
  /\ UNCHANGED <<notSide, accel, app>>

\* sock.sendall(header + payload) has handed the bytes to the socket
sendall ==
  /\ wire.req # NoRequest
  /\ wire' = [wire EXCEPT !.req = NoRequest, !.instrs = 0]
  /\ UNCHANGED <<notSide, accel, app>>

NextWire ==
  \/ send_spawn
  \/ send_load_program
  \/ send_run_all
  \/ send_read_memory
  \/ send_get_telemetry
  \/ sendall

SpecWire == InitWire /\ [][NextWire]_vars

\* ======================================================================
\* The accelerator server (examples/gpu_server.py, start_server)
\* ======================================================================
\* requests the clients of the server write in all
MaxRequests == 2

\* struct.unpack('i', data)[0]: four bytes, least significant first, as a
\* signed 32-bit integer
Unpack(data) ==
  data[1] + 256 * data[2] + 65536 * data[3]
    + 16777216 * (IF data[4] >= 128 THEN data[4] - 256 ELSE data[4])

InitAccel ==
  /\ accel = [pc |-> "accept", client |-> "none", pending |-> <<>>, buf |-> <<>>,
              data |-> <<>>, requests |-> 0, got |-> 0, computed |-> 0,
              acks |-> 0, error |-> "none"]
  /\ wire = <<>>
  /\ app = <<>>
  /\ vcpus = <<>>
  /\ cluster = <<>>
  /\ workers = <<>>
  /\ caller = <<>>
  /\ hist = <<>>
  /\ codec = <<>>
  /\ NoHive

\* conn, addr = s.accept(): returns once a client has connected
srv_accept ==
  /\ accel.pc = "accept"
  /\ accel.requests < MaxRequests
  /\ accel' = [accel EXCEPT !.pc = "recv", !.client = "open"]
  /\ UNCHANGED <<notSide, wire, app>>

\* the client writes the 4 bytes of a request once its earlier request has
\* been acknowledged: one request in flight at a time
cli_send ==
  /\ accel.client = "open"
  /\ accel.requests < MaxRequests
  /\ accel.acks = accel.requests
  /\ accel.error = "none"
  /\ \E size \in {0 - 1, 2, 256} :
       accel' = [accel EXCEPT !.pending = LE(size, 4), !.requests = @ + 1]
  /\ UNCHANGED <<notSide, wire, app>>

\* TCP hands the next bytes of the stream to the server's socket, in order,
\* in segments of any length
net_deliver ==
  /\ accel.pending # <<>>
  /\ \E k \in 1..Len(accel.pending) :
       accel' = [accel EXCEPT !.buf = @ \o SubSeq(accel.pending, 1, k),
                              !.pending = SubSeq(@, k + 1, Len(@))]
  /\ UNCHANGED <<notSide, wire, app>>

\* the client closes the connection, with no request of its own unanswered
cli_close ==
  /\ accel.client = "open"
  /\ accel.acks = accel.requests
  /\ accel.error = "none"
  /\ accel' = [accel EXCEPT !.client = "closed"]
  /\ UNCHANGED <<notSide, wire, app>>

\* data = conn.recv(4): up to 4 of the bytes that have arrived, at least one;
\* b'' when the client has closed, then `if not data: break` ends the
\* connection and the server accepts the next one
srv_recv ==
  /\ accel.pc = "recv"
  /\ IF accel.buf # <<>>
     THEN LET n == Min(4, Len(accel.buf))
          IN  accel' = [accel EXCEPT !.pc = "unpack",
                                     !.data = SubSeq(accel.buf, 1, n),
                                     !.buf = SubSeq(@, n + 1, Len(@)),
                                     !.got = IF n = 4 THEN @ + 1 ELSE @]
     ELSE /\ accel.client = "closed"
          /\ accel' = [accel EXCEPT !.pc = "accept", !.client = "none", !.data = <<>>]
  /\ UNCHANGED <<notSide, wire, app>>

\* size = struct.unpack('i', data)[0] raises struct.error unless data has 4
\* bytes; torch.randn(size, size) raises RuntimeError for a negative size;
\* no handler catches either, start_server ends. Otherwise the product is
\* computed
srv_matmul ==
  /\ accel.pc = "unpack"
  /\ IF Len(accel.data) # 4
     THEN accel' = [accel EXCEPT !.pc = "stopped", !.error = "struct.error"]
     ELSE IF Unpack(accel.data) < 0
     THEN accel' = [accel EXCEPT !.pc = "stopped", !.error = "RuntimeError"]
     ELSE accel' = [accel EXCEPT !.pc = "sendall", !.computed = @ + 1]
  /\ UNCHANGED <<notSide, wire, app>>

\* conn.sendall(b'\x01')
srv_sendall ==
  /\ accel.pc = "sendall"
  /\ accel' = [accel EXCEPT !.pc = "recv", !.acks = @ + 1]
  /\ UNCHANGED <<notSide, wire, app>>

NextAccel ==
  \/ srv_accept
  \/ cli_send
  \/ net_deliver
  \/ cli_close
  \/ srv_recv
  \/ srv_matmul
  \/ srv_sendall

SpecAccel == InitAccel /\ [][NextAccel]_vars

\* ======================================================================
\* The client application (docker/docker_hive_test.py, main)
\* ======================================================================
\* number of addresses in the application's node list
MaxAppNodes == 3
\* for attempt in range(5)
MAX_ATTEMPTS == 5
\* time.sleep(2)
RETRY_DELAY == 2
\* sys.exit(1)
EXIT_FAILURE == 1

\* cluster = None
NoCluster == [built |-> FALSE, nodes |-> {}]

InitApp ==
  /\ app = [pc |-> "loop", made |-> 0, i |-> 0, conn |-> {}, failed |-> 0,
            slept |-> 0, cluster |-> NoCluster, sent |-> <<>>, status |-> 0]
  /\ wire = <<>>
  /\ accel = <<>>
  /\ vcpus = <<>>
  /\ cluster = <<>>
  /\ workers = <<>>
  /\ caller = <<>>
  /\ hist = <<>>
  /\ codec = <<>>
  /\ NoHive

\* `for attempt in range(5)`: the next iteration, or the loop has run out
app_loop ==
  /\ app.pc = "loop"
  /\ IF app.made < MAX_ATTEMPTS
     THEN app' = [app EXCEPT !.pc = "connect", !.made = @ + 1, !.i = 0, !.conn = {}]
     ELSE app' = [app EXCEPT !.pc = "check"]
  /\ UNCHANGED <<notSide, wire, accel>>

\* DistributedCluster.__init__, one iteration of `for node_str in nodes`:
\* the connect succeeds and the node is appended, or it fails and is skipped
app_connect ==
  /\ app.pc = "connect"
  /\ app.i < MaxAppNodes
  /\ \E up \in BOOLEAN :
       app' = [app EXCEPT !.i = @ + 1,
                          !.conn = IF up THEN @ \cup {app.i + 1} ELSE @]
  /\ UNCHANGED <<notSide, wire, accel>>

\* `if not self.nodes: raise ConnectionError`, caught by `except Exception`;
\* otherwise the constructor returns, cluster is assigned and the loop left
app_built ==
  /\ app.pc = "connect"
  /\ app.i = MaxAppNodes
  /\ IF app.conn = {}
     THEN app' = [app EXCEPT !.pc = "sleep", !.failed = @ + 1]
     ELSE app' = [app EXCEPT !.pc = "check",
                             !.cluster = [built |-> TRUE, nodes |-> app.conn]]
  /\ UNCHANGED <<notSide, wire, accel>>

\* time.sleep(2) in the except block, then back to the loop head
app_sleep ==
  /\ app.pc = "sleep"
  /\ app' = [app EXCEPT !.pc = "loop", !.slept = @ + RETRY_DELAY]
  /\ UNCHANGED <<notSide, wire, accel>>

\* variant: the test after the loop never fails
NotCluster_never(c) == FALSE
\* `not cluster`
NotCluster(c) == ~c.built

\* `if not cluster: sys.exit(1)`, else the first command, cluster.spawn
app_check ==
  /\ app.pc = "check"
  /\ IF NotCluster(app.cluster)
     THEN app' = [app EXCEPT !.pc = "exited", !.status = EXIT_FAILURE]
     ELSE app' = [app EXCEPT !.pc = "spawn", !.sent = Append(@, CMD_SPAWN_VCPU)]
  /\ UNCHANGED <<notSide, wire, accel>>

NextApp ==
  \/ app_loop
  \/ app_connect
  \/ app_built
  \/ app_sleep
  \/ app_check

SpecApp == InitApp /\ [][NextApp]_vars
\* the application is one thread; connect and sleep return after a finite time
FairSpecApp == SpecApp /\ WF_vars(NextApp)

\* ======================================================================
\* Properties
\* ======================================================================
NodeIdx == 0..(NumNodes - 1)
SpawnOk == op = "spawn" /\ pc = "done" /\ result.kind = "ok"

\* vCPUs node i gained since the current call began
Gained(i) == nodes[i + 1].vcpu_count - nodesAtStart[i + 1].vcpu_count

RECURSIVE SumGained(_)
SumGained(n) == IF n = 0 THEN 0 ELSE SumGained(n - 1) + Gained(n - 1)

\* all entries of a lower node index come before those of a higher one
NodeOrdered(map) ==
  \A a, b \in DOMAIN map : map[a][1] < map[b][1] => a < b

\* C1: one spawn(total, mem) over M connected nodes gives node i exactly
\* total div M + 1 vCPUs when i < total mod M and total div M otherwise: every
\* SPAWN_VCPU request carries that count, and when the call returns the counts
\* gained sum to total, each is per_node or per_node + 1, and the nodes with
\* the larger count are exactly the total mod M lowest-indexed ones.
C1_ShardCounts ==
  op = "spawn" =>
    LET M == NumNodes
        per == arg \div M
        rem == arg % M
        want(i) == IF i < rem THEN per + 1 ELSE per
    IN  /\ \A k \in DOMAIN evLog :
             evLog[k].e = "send" =>
               /\ evLog[k].cmd = CMD_SPAWN_VCPU
               /\ evLog[k].a = want(evLog[k].node)
        /\ \A i \in NodeIdx : Gained(i) \in {0, want(i)}
        /\ SpawnOk =>
             /\ \A i \in NodeIdx : Gained(i) = want(i)
             /\ \A i \in NodeIdx : Gained(i) \in {per, per + 1}
             /\ SumGained(M) = arg
             /\ {i \in NodeIdx : Gained(i) = per + 1} = 0..(rem - 1)
             /\ Cardinality({i \in NodeIdx : Gained(i) = per + 1}) = rem

\* a spawn returned whose total is not a multiple of the node count and
\* gives every node at least one vCPU
C1_Witness ==
  /\ SpawnOk
  /\ arg \div NumNodes >= 1
  /\ arg % NumNodes >= 1

\* C2 (as stated): after any sequence of spawn calls the whole map is
\* node-ordered: every entry of node i comes before every entry of node j > i.
C2_WholeMapNodeOrdered == NodeOrdered(vcpu_map)

\* C2 (amended): the map is append-only in every step (what is in it is never
\* changed or moved, ids are the positions 0..len-1), and the entries appended
\* by one spawn call are in node order among themselves.
C2_AppendOnlyBlockOrdered ==
  /\ [](op = "spawn" =>
          /\ IsPrefix(mapAtStart, vcpu_map)
          /\ NodeOrdered(SubSeq(vcpu_map, Len(mapAtStart) + 1, Len(vcpu_map))))
  /\ [][IsPrefix(vcpu_map, vcpu_map')]_vars

\* a later spawn has appended a block behind entries of a higher node
C2_Witness ==
  /\ SpawnOk
  /\ mapAtStart # <<>>
  /\ Len(vcpu_map) > Len(mapAtStart)
  /\ ~NodeOrdered(vcpu_map)

\* C3: a single spawn(total) on a fresh client with M nodes leaves a map of
\* length total made of M blocks in node order, block i listing local ids
\* 0..count_i-1 in order; when M divides total global id g maps to
\* (g div per_node, g mod per_node).  For spawn(10000) on 10 nodes every count
\* is 1000 and the block of node 5 starts at global id 5000.
C3_FreshSpawnBlocks ==
  /\ (SpawnOk /\ mapAtStart = <<>>) =>
       LET M == NumNodes
           per == arg \div M
           rem == arg % M
           cnt(i) == IF i < rem THEN per + 1 ELSE per
           off(i) == i * per + Min(i, rem)
       IN  /\ Len(vcpu_map) = arg
           /\ \A i \in NodeIdx : \A l \in 0..(cnt(i) - 1) :
                vcpu_map[off(i) + l + 1] = <<i, l>>
           /\ \A i \in NodeIdx : off(i) = BlockStart(arg, M, i)
           /\ rem = 0 =>
                \A g \in 0..(arg - 1) : vcpu_map[g + 1] = <<g \div per, g % per>>
  /\ \A i \in 0..9 : CountFor(10000, 10, i) = 1000
  /\ BlockStart(10000, 10, 5) = 5000

\* a first spawn returned that spread three or more vCPUs over several nodes
C3_Witness ==
  /\ SpawnOk
  /\ mapAtStart = <<>>
  /\ NumNodes >= 2
  /\ arg >= 3

PerVcpuOp == op \in {"load_program", "read_memory"}
BroadcastOp == op \in {"run_all", "get_telemetry"}
ValidId == arg \in 0..(Len(vcpu_map) - 1)
Waiting == pc \in {"recv_hdr", "recv_pay"}
SendsTo(i) == {k \in DOMAIN evLog : evLog[k].e = "send" /\ evLog[k].node = i}
RecvsFrom(i) == {k \in DOMAIN evLog : evLog[k].e = "recv" /\ evLog[k].node = i}

\* C4: load_program / read_memory with a valid global id g sends exactly one
\* request, on the connection of node vcpu_map[g].node_index and carrying
\* vcpu_map[g].local_id, then waits for that node's response; no request goes
\* to any other connection.
C4_RoutedToOneNode ==
  /\ [](PerVcpuOp /\ ValidId =>
          LET ent == vcpu_map[arg + 1]
              want == SendEv(ent[1],
                             IF op = "load_program" THEN CMD_LOAD_PROG
                                                    ELSE CMD_READ_MEM,
                             ent[2])
          IN  /\ pc = "send" => evLog = <<>>
              /\ Waiting => evLog = <<want>> /\ cur = ent[1]
              /\ pc = "done" =>
                   /\ Len(evLog) = 2
                   /\ evLog[1] = want
                   /\ evLog[2].e \in {"recv", "raise"}
                   /\ evLog[2].node = ent[1])
  /\ [][PerVcpuOp /\ ValidId =>
          \A c \in Addrs :
            unanswered'[c] > unanswered[c] =>
              /\ c = Sock(vcpu_map[arg + 1][1])
              /\ unanswered'[c] = unanswered[c] + 1
              /\ pc = "send"]_vars

\* read_memory of a vCPU that lives on a node other than the first returned
C4_Witness ==
  /\ op = "read_memory"
  /\ ValidId
  /\ pc = "done"
  /\ result.kind = "ok"
  /\ vcpu_map[arg + 1][1] >= 1

\* C5 (as stated): every run_all / get_telemetry call delivers exactly one
\* command to every connected node, whatever the nodes answer.
C5_BroadcastReachesAll ==
  (BroadcastOp /\ pc = "done") =>
    \A i \in NodeIdx : Cardinality(SendsTo(i)) = 1

\* C5 (amended): a broadcast sends RUN_CLUSTER / GET_STATS to the nodes in
\* index order, at most once each, and to node i+1 only after the response
\* of node i has been received with status 200; a call that returns has
\* reached every connected node exactly once; a call that raises at node k
\* has sent exactly one command to each of the nodes 0..k and none to the
\* nodes after k.
C5_BroadcastInOrderUntilError ==
  BroadcastOp =>
    /\ \A k \in DOMAIN evLog :
         /\ k % 2 = 1 =>
              /\ evLog[k].e = "send"
              /\ evLog[k].node = (k - 1) \div 2
              /\ evLog[k].cmd = (IF op = "run_all" THEN CMD_RUN_CLUSTER
                                                   ELSE CMD_GET_STATS)
         /\ k % 2 = 0 =>
              /\ evLog[k].e \in {"recv", "raise"}
              /\ evLog[k].node = (k \div 2) - 1
         /\ evLog[k].e = "raise" =>
              k = Len(evLog) /\ pc = "done" /\ result.kind # "ok"
    /\ Len(evLog) <= 2 * NumNodes
    /\ pc = "send" => Len(evLog) = 2 * cur
    /\ Waiting => Len(evLog) = 2 * cur + 1
    /\ (pc = "done" /\ result.kind = "ok") =>
         /\ Len(evLog) = 2 * NumNodes
         /\ \A i \in NodeIdx : Cardinality(SendsTo(i)) = 1
    /\ (pc = "done" /\ result.kind # "ok") =>
         /\ Len(evLog) % 2 = 0
         /\ \A i \in NodeIdx :
              Cardinality(SendsTo(i)) =
                (IF i <= evLog[Len(evLog)].node THEN 1 ELSE 0)

\* run_all raised on a non-200 status before the last node was reached
C5_Witness ==
  /\ op = "run_all"
  /\ pc = "done"
  /\ result.kind = "RuntimeError"
  /\ Len(evLog) < 2 * NumNodes

RECURSIVE SumData(_, _)
\* sum of field f over the payloads _recv_resp returned during the call
SumData(log, f) ==
  IF log = <<>> THEN 0
  ELSE (IF Head(log).e = "recv" /\ Head(log).data # None
        THEN Head(log).data[1][f] ELSE 0) + SumData(Tail(log), f)

C7_RejectsOutOfRange ==
  (PerVcpuOp /\ ~ValidId) =>
    /\ pc = "done"
    /\ result.kind = "IndexError"
    /\ evLog = <<>>

\* C8: a response header whose status is not 200 makes the operation that
\* reads it raise an error carrying exactly that status; no payload is
\* returned and the command is not sent again.
C8_RemoteStatusRaised ==
  /\ [](/\ \A i \in NodeIdx : Cardinality(SendsTo(i)) <= 1
        /\ result.kind = "RuntimeError" =>
             /\ pc = "done"
             /\ result.status # STATUS_OK
             /\ result.value = None
             /\ evLog[Len(evLog)] = RaiseEv(cur, result.status))
  /\ [][(/\ pc = "recv_hdr"
         /\ pc' # pc
         /\ rx[Sock(cur)] # <<>>
         /\ Head(rx[Sock(cur)]).k = "hdr"
         /\ Head(rx[Sock(cur)]).status # STATUS_OK) =>
          /\ pc' = "done"
          /\ result' = [kind |-> "RuntimeError",
                        status |-> Head(rx[Sock(cur)]).status,
                        value |-> None]
          /\ unanswered' = unanswered
          /\ hiveVars' = hiveVars]_vars

\* an operation on streams that were in step ended with the node's status 500
C8_Witness ==
  /\ pc = "done"
  /\ syncAtStart
  /\ result.kind = "RuntimeError"
  /\ result.status = 500

\* C9: on every connection at most one request is outstanding: no command is
\* sent while an earlier command on that connection lacks its complete
\* response, also after operations that ended in an error.  Stated for the
\* connections the node has not closed; a closed one never completes a
\* response and is used again all the same.
C9_OneOutstanding ==
  \A c \in Addrs : ~closed[c] => Outstanding(c) <= 1

\* C10: the node records and their connections are those the constructor
\* made: no step of any operation adds or removes a record or replaces a
\* record's connection or address, also after a failed operation.
C10_ConnectionsFixed ==
  /\ [](/\ NumNodes >= 1
        /\ \A j \in DOMAIN nodes : nodes[j].sock = nodes[j].addr
        /\ \A j, k \in DOMAIN nodes : j # k => nodes[j].sock # nodes[k].sock)
  /\ [][/\ Len(nodes') = Len(nodes)
        /\ \A j \in DOMAIN nodes :
             /\ nodes'[j].sock = nodes[j].sock
             /\ nodes'[j].addr = nodes[j].addr]_vars

\* a command has been sent on a connection on which an earlier operation failed
C10_Witness ==
  /\ pc = "recv_hdr"
  /\ Outstanding(Sock(cur)) >= 2

\* C11: when the node has closed the connection and the stream holds fewer
\* units than the read in progress needs (no complete header, or fewer
\* payload units than the header announced), the operation ends in that very
\* step with a connection-lost error: it returns no value, sends nothing
\* again and keeps its node records.  A payload read that does succeed has
\* consumed exactly the announced number of units.
C11_ClosedMidResponseRaises ==
  /\ [](result.kind = "ConnectionError" =>
          /\ pc = "done"
          /\ result.value = None
          /\ closed[Sock(cur)]
          /\ rx[Sock(cur)] = <<>>
          /\ evLog[Len(evLog)] = RaiseEv(cur, 0)
          /\ Cardinality(SendsTo(cur)) = 1)
  /\ [][(/\ pc \in {"recv_hdr", "recv_pay"}
         /\ pc' # pc
         /\ closed[Sock(cur)]
         /\ Len(rx[Sock(cur)]) < (IF pc = "recv_hdr" THEN 1 ELSE need)) =>
          /\ pc' = "done"
          /\ result' = [kind |-> "ConnectionError", status |-> 0, value |-> None]
          /\ unanswered' = unanswered
          /\ hiveVars' = hiveVars]_vars
  /\ [][(pc = "recv_pay" /\ pc' # pc /\ result'.kind # "ConnectionError") =>
          /\ Len(rx[Sock(cur)]) >= need
          /\ Len(rx'[Sock(cur)]) = Len(rx[Sock(cur)]) - need
          /\ (op = "read_memory" => Len(result'.value) = need)]_vars

\* the node closed after the header of a response that announces a payload,
\* and the operation that was reading the payload has ended
C11_Witness ==
  /\ pc = "done"
  /\ syncAtStart
  /\ result.kind = "ConnectionError"
  /\ op = "read_memory"
  /\ need >= 1

\* C12: no failure is swallowed: every address handed to the constructor has
\* a node record once the constructor has returned (a failed connect makes
\* the constructor fail), and a get_telemetry call that returns has read a
\* statistics payload from every node (a GET_STATS response without the
\* payload makes the call fail).
C12_NoFailureSwallowed ==
  /\ {nodes[j].addr : j \in DOMAIN nodes} = Addrs
  /\ (op = "get_telemetry" /\ pc = "done" /\ result.kind = "ok") =>
       \A k \in DOMAIN evLog : evLog[k].e = "recv" => evLog[k].data # None

\* ---------------------------------------------------------------- engine
VcpuIdx == 0..(cluster.vcpu_count - 1)
RunReturned == caller.pc = "idle" /\ caller.runs >= 1
\* ... and nothing has been loaded since
JustReturned == RunReturned /\ ~caller.loaded

RECURSIVE SumSeq(_)
SumSeq(q) == IF q = <<>> THEN 0 ELSE Head(q) + SumSeq(Tail(q))

\* C13: when run(cycles) has returned, every worker has finished its batch
\* (none holds the lock or a count not yet added) and total_instructions has
\* grown over the call by exactly the sum of the instructions the vCPUs
\* retired in it, which is at most vcpu_count * cycles; while the call is in
\* progress the counter never exceeds that sum.
C13_TelemetrySettled ==
  /\ cluster.total_instructions - hist.startTotal <= SumSeq(hist.retired)
  /\ caller.pc = "idle" =>
       /\ \A w \in WorkerIds : workers[w] = Parked
       /\ cluster.lock = 0
       /\ cluster.total_instructions - hist.startTotal = SumSeq(hist.retired)
       /\ SumSeq(hist.retired) <= cluster.vcpu_count * hist.cycles

\* a run on several workers has returned in which every vCPU retired
\* something and one of them stopped before its budget was used
C13_Witness ==
  /\ RunReturned
  /\ cluster.thread_count >= 2
  /\ cluster.vcpu_count >= 2
  /\ \A v \in VcpuIdx : hist.retired[v + 1] >= 1
  /\ \E v \in VcpuIdx : hist.retired[v + 1] < hist.cycles

\* C14: in every batch each vCPU is claimed at most once, two workers never
\* own the same vCPU at the same time, and when the run call has returned
\* every vCPU of the cluster has been claimed exactly once, in the first
\* batch and in the later ones.
C14_ClaimedExactlyOnce ==
  /\ \A v \in VcpuIdx : hist.claims[v + 1] <= 1
  /\ \A w1, w2 \in WorkerIds :
       (/\ w1 # w2
        /\ workers[w1].pc \in {"await_ack", "lock", "add"}
        /\ workers[w2].pc \in {"await_ack", "lock", "add"}) =>
         workers[w1].v # workers[w2].v
  /\ RunReturned => \A v \in VcpuIdx : hist.claims[v + 1] = 1

\* the second run call on a cluster with several vCPUs and workers returned
C14_Witness ==
  /\ caller.pc = "idle"
  /\ caller.runs = DEMO_RUNS
  /\ cluster.thread_count >= 2
  /\ cluster.vcpu_count >= 2
  /\ \A v \in VcpuIdx : hist.claims[v + 1] = 1

\* C15: a vCPU changes state only Idle -> Running (when a worker claims it
\* for a run; the slice it then executes may end in Halted or Faulted in the
\* same step), Running -> Halted or Faulted, and back to Idle by a program
\* load; a Halted or Faulted vCPU retires no instruction in any step, and a
\* load_program on a Halted vCPU leaves it Idle at the first instruction of
\* the new program.
C15_StateMachine ==
  [][\A j \in DOMAIN vcpus :
       /\ vcpus'[j].state # vcpus[j].state =>
            \/ /\ vcpus[j].state = "Idle"
               /\ vcpus'[j].state \in {"Running", "Halted", "Faulted"}
               /\ \E w \in WorkerIds : workers[w].pc = "claim" /\ workers'[w].v = j - 1
            \/ vcpus[j].state = "Running" /\ vcpus'[j].state \in {"Halted", "Faulted"}
            \/ /\ vcpus'[j].state = "Idle"
               /\ vcpus'[j].ip = 0
               /\ caller'.loaded /\ ~caller.loaded
       /\ vcpus[j].state \in {"Halted", "Faulted"} =>
            vcpus'[j].cycle_count = vcpus[j].cycle_count
       /\ hist'.reloadedAt[j] # hist.reloadedAt[j] =>
            /\ vcpus[j].state = "Halted"
            /\ vcpus'[j].state = "Idle"
            /\ vcpus'[j].ip = 0
            /\ vcpus'[j].prog \in EnginePrograms]_vars

\* a vCPU that had halted was given a program again and has retired
\* instructions of it
C15_Witness ==
  \E j \in DOMAIN vcpus :
    /\ hist.reloadedAt[j] >= 1
    /\ vcpus[j].cycle_count > hist.reloadedAt[j]

\* C16: every run call returns; in one call no vCPU retires more than
\* `cycles` instructions, also when its program never halts, and a vCPU that
\* has retired fewer when the call returns is Halted or Faulted.
C16_RunTerminatesWithinBudget ==
  /\ [](/\ \A v \in VcpuIdx : hist.retired[v + 1] <= hist.cycles
        /\ JustReturned =>
             \A v \in VcpuIdx :
               hist.retired[v + 1] < hist.cycles =>
                 Ctx(v).state \in {"Halted", "Faulted"})
  /\ (caller.pc = "run" ~> caller.pc = "idle")

\* a run returned in which a vCPU looping on a jump to itself used exactly
\* its budget and is still Running
C16_Witness ==
  /\ JustReturned
  /\ \E v \in VcpuIdx :
       /\ Ctx(v).prog = P_spin
       /\ Ctx(v).state = "Running"
       /\ hist.retired[v + 1] = hist.cycles

\* C17: accelerator_dispatch_count (gpu_offloads) grows by one in exactly
\* the steps in which a dispatch is acknowledged and in no other step; a
\* dispatch is in flight only for a MATMUL or VADD whose size register is at
\* or above the threshold and only when the accelerator is reachable; when
\* the run call has returned the counter equals the number of dispatches.
C17_DispatchCounted ==
  /\ [](\A w \in WorkerIds :
          workers[w].pc = "await_ack" =>
            /\ cluster.accel_up
            /\ IsOffloadOp(Ctx(workers[w].v))
            /\ AtLeast(Ctx(workers[w].v).regs[SIZE_REG], GPU_THRESHOLD))
  /\ [](caller.pc = "idle" => cluster.gpu_offloads = hist.sent)
  /\ [](~cluster.accel_up => cluster.gpu_offloads = 0)
  /\ [][cluster'.gpu_offloads = cluster.gpu_offloads +
          (IF \E w \in WorkerIds :
                /\ workers[w].pc = "await_ack"
                /\ workers'[w].pc # "await_ack"
           THEN 1 ELSE 0)]_vars

\* the run call has returned; one vCPU has had its MATMUL of threshold size
\* acknowledged by the accelerator, another has executed a MATMUL of a size
\* just below the threshold
C17_Witness ==
  /\ RunReturned
  /\ cluster.gpu_offloads = 1
  /\ \E v \in VcpuIdx :
       Ctx(v).prog = P_matmul(GPU_THRESHOLD) /\ Ctx(v).cycle_count >= 2
  /\ \E v \in VcpuIdx :
       Ctx(v).prog = P_matmul(GPU_THRESHOLD - 1) /\ Ctx(v).cycle_count >= 2

\* ------------------------------------------------------- example programs
\* the little-endian bytes of 579 = 2 * 256 + 67
LE579 == <<67, 2, 0, 0, 0, 0, 0, 0>>

\* C18: a vCPU loaded with [MOV R0,123; MOV R1,456; ADD R0,R1; MOV R2,64;
\* STORE_INDIRECT R0->[R2]; HALT] that has retired at least 5 instructions
\* holds the little-endian bytes of 579 at offsets 64..71 of its memory, in
\* every interleaving with the other vCPU of the cluster and whatever that
\* one runs; a run with a budget of at least 5 returns only after these 5
\* instructions, and read_memory(v, 64, 8) on it then returns these bytes.
C18_Store579 ==
  \A v \in 0..(ProgVcpus - 1) :
    Ctx(v).prog = P_store579 =>
      /\ Ctx(v).cycle_count >= MIN_BUDGET => ReadWord(Ctx(v).mem, RESULT_OFFSET) = LE579
      /\ caller.pc = "idle" /\ caller.runs = 1 => Ctx(v).cycle_count >= MIN_BUDGET
      /\ caller.data # <<>> /\ caller.from = v => caller.data = LE579

\* the program ran with budget 5 next to a vector add that retired its five
\* instructions too, and read_memory returned the bytes
C18_Witness ==
  /\ caller.cycles = MIN_BUDGET
  /\ caller.data = LE579
  /\ Ctx(caller.from).prog = P_store579
  /\ Ctx(caller.from).state = "Running"
  /\ \E u \in 0..(ProgVcpus - 1) :
       /\ u # caller.from
       /\ Ctx(u).prog \in VecPrograms
       /\ Ctx(u).cycle_count = MIN_BUDGET

\* the values A[i] and B[i] held before the run
Elem(mem, base, i) == ReadWord(mem, base + WORD * i)

\* C19: a vCPU that was loaded with one of the shipped vector-add programs
\* and ran with a budget that covers the whole loop is Halted when the run
\* returns, and C[i] = A[i] + B[i] for every i below the element count.
C19_VectorAddComputed ==
  \A v \in 0..(ProgVcpus - 1) :
    (/\ Ctx(v).prog \in VecPrograms
     /\ caller.pc = "idle" /\ caller.runs = 1
     /\ caller.cycles >= Enough(SizeOf(Ctx(v).prog)))
    => /\ Ctx(v).state = "Halted"
       /\ \A i \in 0..(SizeOf(Ctx(v).prog) - 1) :
            Elem(Ctx(v).mem, BASE_C, i)
              = AddW(Elem(hist.mem0, BASE_A, i), Elem(hist.mem0, BASE_B, i))

\* ----------------------------------------------------- instruction bytes
\* C20: after k instructions have been packed the instruction bytes are
\* 8 * k long, slot j (bytes 8j .. 8j+7) is opcode, reg_a, reg_b, a zero
\* padding byte and the immediate in four bytes, least significant first,
\* of instruction j, and every instruction read back from its slot is the
\* tuple that was given to load_program.
C20_SlotRoundTrip ==
  /\ Len(codec.instr_bytes) = 8 * codec.packed
  /\ \A j \in 0..(codec.packed - 1) :
       LET t == codec.instructions[j + 1]
           s == [i \in 1..8 |-> codec.instr_bytes[8 * j + i]]
       IN  /\ s[1] = t[1] /\ s[2] = t[2] /\ s[3] = t[3] /\ s[4] = 0
           /\ s[5] + 256 * s[6] + 65536 * s[7] + 16777216 * s[8] = t[4]
           /\ \A i \in 1..8 : s[i] \in 0..255
  /\ \A j \in 1..Len(codec.loaded) : codec.loaded[j] = codec.instructions[j]

\* a program of two different instructions, the second with the immediate
\* 16r12345678, went through pack and unpack
C20_Witness ==
  /\ Len(codec.instructions) >= 2
  /\ Len(codec.loaded) = Len(codec.instructions)
  /\ codec.instructions[1] # codec.instructions[2]
  /\ codec.instructions[2][4] = 305419896
  /\ codec.instructions[2][1] = 255

\* ------------------------------------------------------- Hive client, II
\* C23: while run_all waits for node k, no node after k has been sent the
\* RUN_CLUSTER of this call and every node before k has had its command
\* sent and its response received; and the call ends (returns or raises)
\* at node k only when that node has answered every request sent to it or
\* has closed the connection.
C23_StalledNodeHangs ==
  op = "run_all" =>
    /\ pc \in {"recv_hdr", "recv_pay", "done"} =>
         /\ \A i \in NodeIdx : i > cur => SendsTo(i) = {}
         /\ \A i \in NodeIdx : i < cur => SendsTo(i) # {} /\ RecvsFrom(i) # {}
    /\ pc = "done" => closed[Sock(cur)] \/ unanswered[Sock(cur)] = 0

\* C25: no two global ids map to the same (node_index, local_vcpu_id) pair.
C25_MapInjective ==
  \A g, h \in DOMAIN vcpu_map : g # h => vcpu_map[g] # vcpu_map[h]

\* entries of the sharding map that name node i
EntriesOf(i) == {g \in DOMAIN vcpu_map : vcpu_map[g][1] = i}

\* C26: in every state the map is as long as the sum of the nodes'
\* vcpu_count, node i is named by vcpu_count-of-i entries, and every entry
\* (i, l) names an existing node and a local id below that node's vcpu_count.
C26_MapMatchesCounts ==
  /\ Len(vcpu_map) = SumSeq([j \in DOMAIN nodes |-> nodes[j].vcpu_count])
  /\ \A i \in NodeIdx : Cardinality(EntriesOf(i)) = nodes[i + 1].vcpu_count
  /\ \A g \in DOMAIN vcpu_map :
       /\ vcpu_map[g][1] \in NodeIdx
       /\ vcpu_map[g][2] >= 0
       /\ vcpu_map[g][2] < nodes[vcpu_map[g][1] + 1].vcpu_count

\* a spawn over two nodes was aborted at the second node after the first
\* one had acknowledged
C26_Witness ==
  /\ op = "spawn" /\ pc = "done"
  /\ result.kind \in {"RuntimeError", "ConnectionError"}
  /\ cur >= 1
  /\ Len(vcpu_map) > Len(mapAtStart)

\* C27: whenever the client is about to read a response header, the unit at
\* the head of every connection's stream is the header of a response.
C27_StreamFramed ==
  pc # "recv_pay" =>
    \A c \in Socks : rx[c] # <<>> => Head(rx[c]).k = "hdr"

\* C28: an operation that raised has left the sharding map and every node
\* record as they were when it was called.
C28_ErrorLeavesShardingUnchanged ==
  pc = "done" /\ result.kind # "ok" =>
    vcpu_map = mapAtStart /\ nodes = nodesAtStart

\* ------------------------------------------------- Client application
\* the application is past the retry loop
AppLoopLeft == app.pc \in {"check", "exited", "spawn"}

\* C24: the retry loop makes at most 5 attempts, sleeps 2 seconds after each
\* failed attempt, makes no attempt after one that succeeded, and is always
\* left; when all 5 attempts failed the application exits with status 1 and
\* has sent no command.
C24_RetryLoop ==
  /\ [](/\ app.made <= MAX_ATTEMPTS
        /\ app.failed <= app.made
        /\ app.slept = RETRY_DELAY * (app.failed - (IF app.pc = "sleep" THEN 1 ELSE 0))
        /\ app.cluster.built => app.made = app.failed + 1 /\ app.pc # "connect"
        /\ app.pc = "connect" => app.failed = app.made - 1
        /\ app.sent # <<>> => app.cluster.built
        /\ (AppLoopLeft /\ ~app.cluster.built) =>
             /\ app.failed = MAX_ATTEMPTS
             /\ app.sent = <<>>
             /\ app.pc = "exited" => app.status = EXIT_FAILURE
        /\ app.status # 0 => app.pc = "exited" /\ ~app.cluster.built)
  /\ <>AppLoopLeft
  /\ <>(app.pc \in {"exited", "spawn"})

C24_Witness ==
  /\ app.pc = "exited"
  /\ app.failed = MAX_ATTEMPTS
  /\ app.slept = 10
  /\ app.status = EXIT_FAILURE

\* ------------------------------------------------------ Request bytes
\* C21: every request is a 16-byte header whose last field is the number of
\* payload bytes that follow, and the payload has the listed size: 8 bytes
\* for SPAWN_VCPU, 8 + 8 * instr_count for LOAD_PROGRAM, 8 for RUN_CLUSTER,
\* 20 for READ_MEMORY and 0 for GET_STATS.
C21_RequestLayout ==
  wire # <<>> /\ wire.req.cmd # 0 =>
    LET data == wire.req.data
        payload_len == Len(data) - 16
    IN  /\ Len(data) >= 16
        /\ SubSeq(data, 1, 4) = LE(MAGIC, 4)
        /\ SubSeq(data, 5, 8) = LE(wire.req.cmd, 4)
        /\ SubSeq(data, 9, 12) = LE(0, 4)
        /\ SubSeq(data, 13, 16) = LE(payload_len, 4)
        /\ payload_len =
             CASE wire.req.cmd = CMD_SPAWN_VCPU -> 8
               [] wire.req.cmd = CMD_LOAD_PROG -> 8 + 8 * wire.instrs
               [] wire.req.cmd = CMD_RUN_CLUSTER -> 8
               [] wire.req.cmd = CMD_READ_MEM -> 20
               [] wire.req.cmd = CMD_GET_STATS -> 0

\* ------------------------------------------------- Accelerator server
\* C22: the server sends one acknowledgment byte per request, after the 4
\* bytes of that request were received and its product was computed, so
\* that the acknowledgments never outnumber the complete requests received;
\* it stops serving a connection only when the client has closed it.
C22_OneAckPerRequest ==
  accel # <<>> =>
    /\ accel.acks <= accel.computed
    /\ accel.computed <= accel.got
    /\ accel.got <= accel.requests
    /\ accel.computed <= accel.acks + 1
    /\ accel.pc \in {"accept", "stopped"} /\ accel.requests > 0 =>
         accel.client \in {"none", "closed"}
    /\ accel.pc = "recv" /\ accel.pending = <<>> /\ accel.buf = <<>> =>
         accel.acks = accel.requests

====
